---- MODULE Spec2Model ----
(***************************************************************************)
(* Hologram Assistant - core logic (global state store, WebSocket manager, *)
(* message router, throttled mode sync) as a state machine.                *)
(*                                                                         *)
(* The browser runs one callback at a time to completion, so every action  *)
(* below is one whole callback.  A callback is written as a composition of *)
(* operators on a record s of the program state; Commit(s) installs the    *)
(* record the callback ends with.  s.trace is the ordered list of the      *)
(* observable effects of the callback (setter calls, subscriber            *)
(* invocations, listener invocations, frames handed to the socket, sockets *)
(* created, timers armed).                                                 *)
(***************************************************************************)
EXTENDS Integers, Sequences, FiniteSets, TLC

\* ---------------------------------------------------------------- bounds
MaxSockets   == 2      \* sockets the channel may create in one run
MaxListeners == 3      \* length of AppState._listeners
MaxHandlers  == 2      \* listeners per router key
StartTime    == 5000   \* Date.now() when the page loads
TickStep     == 1000   \* granularity of the clock, ms
MaxTime      == 9000   \* the clock stops here
MaxAudios    == 2      \* Audio elements the voice adapter may create in one run

\* ---------------------------------------------------- program constants
reconnectInterval == 3000
modeThrottle      == 1000
reactionPeriod    == 1200

Null      == "null"
Undefined == "undefined"

Modes         == {"VISION", "VOICE"}
WSStatuses    == {"CONNECTED", "DISCONNECTED", "RECONNECTING"}
VoiceStates   == {"IDLE", "REQUESTED", "LISTENING", "WAITING", "PLAYING"}
ViewNames     == {"vision", "voice", "portal", "settings"}
Subscribers   == {"cb1", "cb2"}
SocketIds     == 1..MaxSockets
AudioIds      == 1..MaxAudios

VARIABLES mode, wsStatus, voiceState, listeners,
          ws, readyState, timers, lastModeSwitch, handlers,
          now, wire, op, trace, thrown,
          unsubs, currentAudio, audio, bodyOnclick, isReacting, reactTimer

vars == <<mode, wsStatus, voiceState, listeners,
          ws, readyState, timers, lastModeSwitch, handlers,
          now, wire, op, trace, thrown,
          unsubs, currentAudio, audio, bodyOnclick, isReacting, reactTimer>>

\* the callback that ran last, its argument and the socket whose event it
\* handles; fresh until the clock moves on
Op(name, arg, sock) == [name |-> name, arg |-> arg, sock |-> sock, fresh |-> TRUE]

\* an observable effect of a callback
Ev(kind, id, arg) == [ev |-> kind, id |-> id, arg |-> arg]

\* the program state at the start of a callback, with an empty trace
Cur == [mode |-> mode, wsStatus |-> wsStatus, voiceState |-> voiceState,
        listeners |-> listeners, ws |-> ws, readyState |-> readyState,
        timers |-> timers, lastModeSwitch |-> lastModeSwitch,
        handlers |-> handlers, wire |-> wire, trace |-> <<>>,
        ret |-> Undefined, thrown |-> FALSE,
        unsubs |-> unsubs, currentAudio |-> currentAudio, audio |-> audio,
        bodyOnclick |-> bodyOnclick, isReacting |-> isReacting,
        reactTimer |-> reactTimer, full |-> FALSE]

Commit(s) ==
    /\ mode' = s.mode
    /\ wsStatus' = s.wsStatus
    /\ voiceState' = s.voiceState
    /\ listeners' = s.listeners
    /\ ws' = s.ws
    /\ readyState' = s.readyState
    /\ timers' = s.timers
    /\ lastModeSwitch' = s.lastModeSwitch
    /\ handlers' = s.handlers
    /\ wire' = s.wire
    /\ trace' = s.trace
    /\ thrown' = s.thrown
    /\ unsubs' = s.unsubs
    /\ currentAudio' = s.currentAudio
    /\ audio' = s.audio
    /\ bodyOnclick' = s.bodyOnclick
    /\ isReacting' = s.isReacting
    /\ reactTimer' = s.reactTimer

\* ------------------------------------------------------------- AppState
\* the object handed to a subscriber: AppState._state as it is at the call
Snapshot(s) == [mode |-> s.mode, wsStatus |-> s.wsStatus,
                voiceState |-> s.voiceState]

Log(s, e) == [s EXCEPT !.trace = Append(@, e)]

_notify(s) ==
    [s EXCEPT !.trace = @ \o [i \in 1..Len(s.listeners) |->
                                Ev("notify", s.listeners[i], Snapshot(s))]]

\* setMode without the equal-value return
setMode_noGuard(s0, value) ==
    _notify([Log(s0, Ev("call", "setMode", value)) EXCEPT !.mode = value])

setMode(s0, value) ==
    LET s == Log(s0, Ev("call", "setMode", value)) IN
    IF s.mode = value THEN s
    ELSE _notify([s EXCEPT !.mode = value])

setWSStatus(s0, value) ==
    LET s == Log(s0, Ev("call", "setWSStatus", value)) IN
    IF s.wsStatus = value THEN s
    ELSE _notify([s EXCEPT !.wsStatus = value])

setVoiceState(s0, value) ==
    LET s == Log(s0, Ev("call", "setVoiceState", value)) IN
    IF s.voiceState = value THEN s
    ELSE _notify([s EXCEPT !.voiceState = value])

\* subscribe that replays the snapshot to every subscriber, not to the new one
subscribe_notifyAll(s, callback) ==
    _notify([s EXCEPT !.listeners = Append(@, callback)])

subscribe(s, callback) ==
    Log([s EXCEPT !.listeners = Append(@, callback)],
        Ev("notify", callback, Snapshot(s)))

\* unsubscribe that drops the first entry of the list only
unsubscribe_first(s, callback) ==
    [s EXCEPT !.listeners = IF @ = <<>> THEN @ ELSE Tail(@)]

\* the function subscribe(callback) returns
unsubscribe(s, callback) ==
    LET keep(l) == l # callback IN
    [s EXCEPT !.listeners = SelectSeq(@, keep)]


\* ------------------------------------------------------------ WSManager
\* sockets created so far; new WebSocket(url) takes the next identity
Created(s) == {i \in SocketIds : s.readyState[i] # "NONE"}

Live(s) == s.ws # 0 /\ s.readyState[s.ws] \in {"OPEN", "CONNECTING"}

\* connect without the open-or-connecting guard
connect_noGuard(s) ==
    LET id == Cardinality(Created(s)) + 1 IN
    Log([s EXCEPT !.ws = id, !.readyState[id] = "CONNECTING"],
        Ev("socket", id, "CONNECTING"))

connect(s) ==
    IF Live(s) THEN s
    ELSE LET id == Cardinality(Created(s)) + 1 IN
         Log([s EXCEPT !.ws = id, !.readyState[id] = "CONNECTING"],
             Ev("socket", id, "CONNECTING"))

Msg(type, action, value) == [type |-> type, action |-> action, value |-> value]

\* the value null where a message object is expected
NullValue == Msg(Null, Null, Null)

\* JSON.stringify(data): the text frame of an object
JSONstringify(data) == [text |-> "object", data |-> data]

\* JSON.parse(text): a SyntaxError for text that is not JSON, the value
\* otherwise; the literal null parses to null
JSONparse(frame) ==
    IF frame.text = "object" THEN [threw |-> FALSE, data |-> frame.data]
    ELSE IF frame.text = "null" THEN [threw |-> FALSE, data |-> NullValue]
    ELSE [threw |-> TRUE, data |-> NullValue]

\* WebSocket.send of the browser on the channel's socket: an
\* InvalidStateError while connecting, a transmission while open, a silent
\* discard while closing or closed.  wire remembers the last mode message
\* that was transmitted and when.
wsSend(s, frame) ==
    IF s.readyState[s.ws] = "CONNECTING" THEN [s EXCEPT !.thrown = TRUE]
    ELSE IF s.readyState[s.ws] = "OPEN" THEN
        LET s1 == Log(s, Ev("tx", s.ws, frame)) IN
        IF frame.data.type = "mode"
        THEN [s1 EXCEPT !.wire = [value |-> frame.data.value, t |-> now]]
        ELSE s1
    ELSE s

\* send that only tests that a socket exists
send_noReadyState(s0, data) ==
    LET s == Log(s0, Ev("call", "send", data)) IN
    IF s.ws # 0
    THEN LET s1 == wsSend(s, JSONstringify(data)) IN
         IF s1.thrown THEN s1
         ELSE Log([s1 EXCEPT !.ret = TRUE], Ev("return", "send", TRUE))
    ELSE Log([s EXCEPT !.ret = FALSE], Ev("return", "send", FALSE))

send(s0, data) ==
    LET s == Log(s0, Ev("call", "send", data)) IN
    IF s.ws # 0 /\ s.readyState[s.ws] = "OPEN"
    THEN LET s1 == wsSend(s, JSONstringify(data)) IN
         IF s1.thrown THEN s1
         ELSE Log([s1 EXCEPT !.ret = TRUE], Ev("return", "send", TRUE))
    ELSE Log([s EXCEPT !.ret = FALSE], Ev("return", "send", FALSE))

\* sendMode that lets every request through, however recent the last one
sendMode_unthrottled(s0, m, force) ==
    LET s == Log(s0, Ev("call", "sendMode",
                        [mode |-> m, force |-> force,
                         elapsed |-> now - s0.lastModeSwitch]))
        s1 == send(s, Msg("mode", Undefined, m)) IN
    IF s1.thrown THEN s1
    ELSE IF s1.ret THEN [s1 EXCEPT !.lastModeSwitch = now, !.ret = Undefined]
    ELSE [s1 EXCEPT !.ret = Undefined]

\* sendMode that records the time of every attempt that passes the throttle
sendMode_stampAlways(s0, m, force) ==
    LET s == Log(s0, Ev("call", "sendMode",
                        [mode |-> m, force |-> force,
                         elapsed |-> now - s0.lastModeSwitch])) IN
    IF ~force /\ (now - s.lastModeSwitch < modeThrottle)
    THEN [s EXCEPT !.ret = Undefined]
    ELSE LET s1 == send(s, Msg("mode", Undefined, m)) IN
         IF s1.thrown THEN s1
         ELSE [s1 EXCEPT !.lastModeSwitch = now, !.ret = Undefined]

\* sendMode that never records the time of a successful send
sendMode_noStamp(s0, m, force) ==
    LET s == Log(s0, Ev("call", "sendMode",
                        [mode |-> m, force |-> force,
                         elapsed |-> now - s0.lastModeSwitch])) IN
    IF ~force /\ (now - s.lastModeSwitch < modeThrottle)
    THEN [s EXCEPT !.ret = Undefined]
    ELSE LET s1 == send(s, Msg("mode", Undefined, m)) IN
         IF s1.thrown THEN s1 ELSE [s1 EXCEPT !.ret = Undefined]

sendMode(s0, m, force) ==
    LET s == Log(s0, Ev("call", "sendMode",
                        [mode |-> m, force |-> force,
                         elapsed |-> now - s0.lastModeSwitch])) IN
    IF ~force /\ (now - s.lastModeSwitch < modeThrottle)
    THEN [s EXCEPT !.ret = Undefined]
    ELSE LET s1 == send(s, Msg("mode", Undefined, m)) IN
         IF s1.thrown THEN s1
         ELSE IF s1.ret = TRUE
              THEN [s1 EXCEPT !.lastModeSwitch = now, !.ret = Undefined]
              ELSE [s1 EXCEPT !.ret = Undefined]

sendVoiceControl(s, action) ==
    LET s1 == send(s, Msg("voice_control", action, Undefined)) IN
    [s1 EXCEPT !.ret = Undefined]

\* showView that syncs only when the view switch changed the mode
showView_syncOnChange(s0, viewName) ==
    LET s1 == IF viewName = "vision" THEN setMode(s0, "VISION") ELSE s0
        s2 == IF viewName = "voice" THEN setMode(s1, "VOICE") ELSE s1
        s3 == IF viewName = "portal" THEN setMode(s2, Null) ELSE s2
    IN  IF s3.mode # Null /\ s3.mode # s0.mode
        THEN sendMode(s3, s3.mode, FALSE) ELSE s3

showView(s0, viewName) ==
    LET s1 == IF viewName = "vision" THEN setMode(s0, "VISION") ELSE s0
        s2 == IF viewName = "voice" THEN setMode(s1, "VOICE") ELSE s1
        s3 == IF viewName = "portal" THEN setMode(s2, Null) ELSE s2
    IN  IF s3.mode # Null THEN sendMode(s3, s3.mode, FALSE) ELSE s3

\* onopen that syncs the mode without the force flag
onopen_unforced(s0) ==
    LET s == setWSStatus(s0, "CONNECTED") IN
    IF s.mode # Null THEN sendMode(s, s.mode, FALSE) ELSE s

onopen(s0) ==
    LET s == setWSStatus(s0, "CONNECTED") IN
    IF s.mode # Null THEN sendMode(s, s.mode, TRUE) ELSE s

\* onclose with a delay that grows with the number of sockets used up
onclose_backoff(s0, sock) ==
    LET s == setWSStatus(s0, "DISCONNECTED")
        d == reconnectInterval * Cardinality(Created(s0))
    IN  Log([s EXCEPT !.timers[sock] = now + d], Ev("setTimeout", sock, now + d))

onclose(s0, sock) ==
    LET s == setWSStatus(s0, "DISCONNECTED") IN
    Log([s EXCEPT !.timers[sock] = now + reconnectInterval],
        Ev("setTimeout", sock, now + reconnectInterval))

reconnectTimer(s0) ==
    connect(setWSStatus(s0, "RECONNECTING"))

\* onerror that reports the loss of the connection itself
onerror_disconnects(s) == setWSStatus(s, "DISCONNECTED")

onerror(s) == s

\* ------------------------------------------------------- message router
Get(h, key) == IF key \in DOMAIN h THEN h[key] ELSE <<>>

Registered(h, cb) ==
    \E k \in DOMAIN h : \E i \in 1..Len(h[k]) : h[k][i] = cb

on(s, type, callback) ==
    LET h == IF type \in DOMAIN s.handlers THEN s.handlers
             ELSE [k \in DOMAIN s.handlers \cup {type} |->
                     IF k = type THEN <<>> ELSE s.handlers[k]]
    IN  [s EXCEPT !.handlers = [h EXCEPT ![type] = Append(@, callback)]]

\* the listeners the adapters register (voice.js, vision.js); any other
\* listener is a consumer that touches neither the store nor the channel
\* Audio elements created so far; new Audio(path) takes the next identity
AudiosCreated(s) == {a \in AudioIds : s.audio[a] # "NONE"}

\* HTMLMediaElement.pause() on an element
pause(st) == IF st \in {"starting", "playing", "blocked"} THEN "paused" ELSE st

\* HTMLMediaElement.play() on an element
play(st) == IF st \in {"NONE", "blocked", "paused", "ended"} THEN "starting" ELSE st

\* the speak listener past its mode check: interrupt, new Audio, play()
speak(s, id) ==
    IF AudiosCreated(s) = AudioIds THEN [s EXCEPT !.full = TRUE]
    ELSE LET a == Cardinality(AudiosCreated(s)) + 1
             s1 == IF s.currentAudio # 0
                   THEN [s EXCEPT !.audio[s.currentAudio] = pause(@)]
                   ELSE s
         IN  Log([s1 EXCEPT !.currentAudio = a, !.audio[a] = play(@)],
                 Ev("react", id, a))

\* the motion listener past its mode check
motion(s, id) ==
    IF s.isReacting THEN s
    ELSE Log([s EXCEPT !.isReacting = TRUE,
                       !.reactTimer = now + reactionPeriod],
             Ev("react", id, now + reactionPeriod))

\* listeners that react to messages in any mode
Listener_noModeCheck(s0, id, msg) ==
    LET s == Log(s0, Ev("listener", id, msg)) IN
    IF id = "voice.speak" THEN speak(s, id)
    ELSE IF id = "voice.transcribe" THEN Log(s, Ev("react", id, "text"))
    ELSE IF id = "voice.state" THEN
        setVoiceState(Log(s, Ev("react", id, "log")), msg.value)
    ELSE IF id = "voice.error" THEN
        setVoiceState(Log(s, Ev("react", id, "text")), "IDLE")
    ELSE IF id = "vision.motion" THEN motion(s, id)
    ELSE s

\* an error listener that shows the error and leaves the sub-state alone
Listener_errorKeepsState(s0, id, msg) ==
    LET s == Log(s0, Ev("listener", id, msg)) IN
    IF id = "voice.speak" THEN
        IF s.mode # "VOICE" THEN s ELSE speak(s, id)
    ELSE IF id = "voice.transcribe" THEN
        IF s.mode # "VOICE" THEN s ELSE Log(s, Ev("react", id, "text"))
    ELSE IF id = "voice.state" THEN
        IF s.mode # "VOICE" THEN s
        ELSE setVoiceState(Log(s, Ev("react", id, "log")), msg.value)
    ELSE IF id = "voice.error" THEN
        IF s.mode # "VOICE" THEN s ELSE Log(s, Ev("react", id, "text"))
    ELSE IF id = "vision.motion" THEN
        IF s.mode # "VISION" THEN s ELSE motion(s, id)
    ELSE s

Listener(s0, id, msg) ==
    LET s == Log(s0, Ev("listener", id, msg)) IN
    IF id = "voice.speak" THEN
        IF s.mode # "VOICE" THEN s ELSE speak(s, id)
    ELSE IF id = "voice.transcribe" THEN
        IF s.mode # "VOICE" THEN s ELSE Log(s, Ev("react", id, "text"))
    ELSE IF id = "voice.state" THEN
        IF s.mode # "VOICE" THEN s
        ELSE setVoiceState(Log(s, Ev("react", id, "log")), msg.value)
    ELSE IF id = "voice.error" THEN
        IF s.mode # "VOICE" THEN s
        ELSE setVoiceState(Log(s, Ev("react", id, "text")), "IDLE")
    ELSE IF id = "vision.motion" THEN
        IF s.mode # "VISION" THEN s ELSE motion(s, id)
    ELSE s

\* ----------------------------------------------- voice adapter, playback
\* currentAudio.onplay
audio_onplay(s) == Log(setVoiceState(s, "PLAYING"), Ev("react", "onplay", "text"))

\* currentAudio.onended
audio_onended(s) == setVoiceState(s, "IDLE")

\* currentAudio.onerror
audio_onerror(s) == setVoiceState(s, "IDLE")

\* the catch handler of currentAudio.play(): a hint, and a one-shot click
\* handler on the body
playRejected(s) ==
    Log([s EXCEPT !.bodyOnclick = TRUE], Ev("react", "catch", "text"))

\* document.body.onclick as the catch handler installs it
bodyClick(s) ==
    [s EXCEPT !.audio[s.currentAudio] = play(@), !.bodyOnclick = FALSE]

\* the vision adapter's reset after the reaction period
reactionTimer(s) ==
    Log([s EXCEPT !.isReacting = FALSE, !.reactTimer = 0],
        Ev("react", "reset", Undefined))

RECURSIVE forEach(_, _, _, _)
forEach(s, cbs, i, msg) ==
    IF i > Len(cbs) \/ s.thrown THEN s
    ELSE forEach(Listener(s, cbs[i], msg), cbs, i + 1, msg)

ActionKey(action) ==
    CASE action = "speak" -> "action:speak"
      [] action = "wave" -> "action:wave"
      [] action = "motion_detected" -> "action:motion_detected"
      [] OTHER -> "action:undefined"

_routeMessage(s, data) ==
    IF data = NullValue THEN [s EXCEPT !.thrown = TRUE]
    ELSE LET s1 == forEach(s, Get(s.handlers, data.type), 1, data) IN
         IF s1.thrown \/ data.type # "action" THEN s1
         ELSE forEach(s1, Get(s1.handlers, ActionKey(data.action)), 1, data)

\* onmessage with JSON.parse outside the try block
onmessage_parseOutsideTry(s, frame) ==
    LET p == JSONparse(frame) IN
    IF p.threw THEN [s EXCEPT !.thrown = TRUE]
    ELSE LET s1 == _routeMessage(s, p.data) IN
         [s1 EXCEPT !.thrown = FALSE]

onmessage(s, frame) ==
    LET p == JSONparse(frame) IN
    IF p.threw THEN s
    ELSE LET s1 == _routeMessage(s, p.data) IN
         [s1 EXCEPT !.thrown = FALSE]

\* ------------------------------------------------------------- inputs
Actions == {"speak", "wave", "motion_detected"}

InboundMsgs ==
    {Msg("state", Undefined, v) : v \in VoiceStates}
    \cup {Msg("action", a, Undefined) : a \in Actions}
    \cup {Msg(t, Undefined, Undefined) :
            t \in {"error", "transcribe", "video", "action:wave"}}

Frames ==
    {JSONstringify(m) : m \in InboundMsgs}
    \cup {[text |-> "null", data |-> NullValue],
          [text |-> "garbage", data |-> NullValue]}

\* the frames whose listeners call a setter of the store, and the malformed
StoreFrames ==
    {f \in Frames : f.data = NullValue \/ f.data.type \in {"state", "error"}}

Probes    == {"p1", "p2"}
ProbeKeys == {"action", "action:wave", "state"}

Init ==
    /\ mode = Null
    /\ wsStatus = "DISCONNECTED"
    /\ voiceState = "IDLE"
    /\ listeners = <<>>
    /\ ws = 0
    /\ readyState = [i \in SocketIds |-> "NONE"]
    /\ timers = [i \in SocketIds |-> 0]
    /\ lastModeSwitch = 0
    /\ handlers = [k \in {} |-> <<>>]
    /\ now = StartTime
    /\ wire = [value |-> Null, t |-> 0]
    /\ op = Op("init", Undefined, 0)
    /\ trace = <<>>
    /\ thrown = FALSE
    /\ unsubs = {}
    /\ currentAudio = 0
    /\ audio = [a \in AudioIds |-> "NONE"]
    /\ bodyOnclick = FALSE
    /\ isReacting = FALSE
    /\ reactTimer = 0

\* core script, top level: the global channel connects and the overlay
\* subscribes; nothing else runs before it
Load ==
    /\ ws = 0
    /\ op' = Op("load", Undefined, 0)
    /\ Commit(subscribe(connect(Cur), "updateOverlay"))
    /\ UNCHANGED now

Subscribe(cb) ==
    /\ ws # 0
    /\ Len(listeners) < MaxListeners
    /\ op' = Op("subscribe", cb, 0)
    /\ Commit([subscribe(Cur, cb) EXCEPT !.unsubs = @ \cup {cb}])
    /\ UNCHANGED now

\* a caller invokes the function an earlier subscribe(cb) returned to it
Unsubscribe(cb) ==
    /\ cb \in unsubs
    /\ op' = Op("unsubscribe", cb, 0)
    /\ Commit(unsubscribe(Cur, cb))
    /\ UNCHANGED now

Connect ==
    /\ ws # 0
    /\ Live(Cur) \/ Cardinality(Created(Cur)) < MaxSockets
    /\ op' = Op("connect", Undefined, 0)
    /\ Commit(connect(Cur))
    /\ UNCHANGED now

ShowView(viewName) ==
    /\ ws # 0
    /\ op' = Op("showView", viewName, 0)
    /\ Commit(showView(Cur, viewName))
    /\ UNCHANGED now

SendMode(m) ==
    /\ ws # 0
    /\ op' = Op("sendMode", m, 0)
    /\ Commit(sendMode(Cur, m, FALSE))
    /\ UNCHANGED now

SendVoiceControl(a) ==
    /\ ws # 0
    /\ op' = Op("sendVoiceControl", a, 0)
    /\ Commit(sendVoiceControl(Cur, a))
    /\ UNCHANGED now

\* the socket's connection is established: readyState OPEN, open event
OnOpen(sock) ==
    /\ readyState[sock] = "CONNECTING"
    /\ op' = Op("onopen", Undefined, sock)
    /\ Commit(onopen([Cur EXCEPT !.readyState[sock] = "OPEN"]))
    /\ UNCHANGED now

\* the closing handshake starts: readyState CLOSING, no event
Closing(sock) ==
    /\ readyState[sock] = "OPEN"
    /\ op' = Op("closing", Undefined, sock)
    /\ Commit([Cur EXCEPT !.readyState[sock] = "CLOSING"])
    /\ UNCHANGED now

\* the connection is closed or has failed: readyState CLOSED, close event;
\* op.arg keeps the readyState the socket had until then
OnClose(sock) ==
    /\ readyState[sock] \in {"CONNECTING", "OPEN", "CLOSING"}
    /\ op' = Op("onclose", readyState[sock], sock)
    /\ Commit(onclose([Cur EXCEPT !.readyState[sock] = "CLOSED"], sock))
    /\ UNCHANGED now

OnError(sock) ==
    /\ readyState[sock] \in {"CONNECTING", "OPEN", "CLOSING"}
    /\ op' = Op("onerror", Undefined, sock)
    /\ Commit(onerror(Cur))
    /\ UNCHANGED now

OnMessage(sock, frame) ==
    /\ readyState[sock] = "OPEN"
    /\ op' = Op("onmessage", frame, sock)
    /\ ~onmessage(Cur, frame).full
    /\ Commit(onmessage(Cur, frame))
    /\ UNCHANGED now

\* the timer armed by the close handler of sock expires
ReconnectTimer(sock) ==
    /\ timers[sock] # 0
    /\ now >= timers[sock]
    /\ Live(Cur) \/ Cardinality(Created(Cur)) < MaxSockets
    /\ op' = Op("reconnectTimer", Undefined, sock)
    /\ Commit(reconnectTimer([Cur EXCEPT !.timers[sock] = 0]))
    /\ UNCHANGED now

On(type, cb) ==
    /\ ws # 0
    /\ Len(Get(handlers, type)) < MaxHandlers
    /\ ~Registered(handlers, cb)
    /\ op' = Op("on", type, 0)
    /\ Commit(on(Cur, type, cb))
    /\ UNCHANGED now

\* voice.js: the adapter subscribes and registers its listeners, once
VoiceInit ==
    /\ ws # 0
    /\ ~Registered(handlers, "voice.state")
    /\ Len(listeners) < MaxListeners
    /\ Len(Get(handlers, "state")) < MaxHandlers
    /\ op' = Op("voiceInit", Undefined, 0)
    /\ Commit(on(on(on(on(subscribe(Cur, "voiceUI"),
                "action:speak", "voice.speak"),
                "transcribe", "voice.transcribe"),
                "state", "voice.state"),
                "error", "voice.error"))
    /\ UNCHANGED now

\* vision.js: the adapter registers its listener, once
VisionInit ==
    /\ ws # 0
    /\ ~Registered(handlers, "vision.motion")
    /\ Len(Get(handlers, "action:motion_detected")) < MaxHandlers
    /\ op' = Op("visionInit", Undefined, 0)
    /\ Commit(on(Cur, "action:motion_detected", "vision.motion"))
    /\ UNCHANGED now

\* playback of an element starts: its play event
AudioPlay(a) ==
    /\ audio[a] = "starting"
    /\ op' = Op("onplay", a, 0)
    /\ Commit(audio_onplay([Cur EXCEPT !.audio[a] = "playing"]))
    /\ UNCHANGED now

\* the browser refuses to start playback: the promise of play() rejects
PlayRejected(a) ==
    /\ audio[a] = "starting"
    /\ op' = Op("catch", a, 0)
    /\ Commit(playRejected([Cur EXCEPT !.audio[a] = "blocked"]))
    /\ UNCHANGED now

\* a click on the page while the one-shot handler is installed
BodyClick ==
    /\ bodyOnclick
    /\ op' = Op("bodyClick", Undefined, 0)
    /\ Commit(bodyClick(Cur))
    /\ UNCHANGED now

\* playback of an element reaches the end: its ended event
AudioEnded(a) ==
    /\ audio[a] = "playing"
    /\ op' = Op("onended", a, 0)
    /\ Commit(audio_onended([Cur EXCEPT !.audio[a] = "ended"]))
    /\ UNCHANGED now

\* loading or decoding of an element fails: its error event; an element
\* that was interrupted keeps its handlers
AudioError(a) ==
    /\ audio[a] \in {"starting", "playing", "blocked", "paused"}
    /\ op' = Op("onaudioerror", a, 0)
    /\ Commit(audio_onerror([Cur EXCEPT !.audio[a] = "failed"]))
    /\ UNCHANGED now

ReactionTimer ==
    /\ reactTimer # 0
    /\ now >= reactTimer
    /\ op' = Op("reactionTimer", Undefined, 0)
    /\ Commit(reactionTimer(Cur))
    /\ UNCHANGED now

Tick ==
    /\ now + TickStep <= MaxTime
    /\ now' = now + TickStep
    /\ op' = [op EXCEPT !.fresh = FALSE]
    /\ trace' = <<>>
    /\ UNCHANGED <<mode, wsStatus, voiceState, listeners, ws, readyState,
                   timers, lastModeSwitch, handlers, wire, thrown,
                   unsubs, currentAudio, audio, bodyOnclick, isReacting,
                   reactTimer>>

\* due times of the timers that are armed and not yet due
Pending ==
    {d \in {timers[s] : s \in SocketIds} \cup {reactTimer} : d > now}

\* nothing happens until the next timer is due
Idle ==
    /\ \E d \in Pending :
         /\ d <= MaxTime
         /\ \A e \in Pending : d <= e
         /\ now' = d
    /\ op' = [op EXCEPT !.fresh = FALSE]
    /\ trace' = <<>>
    /\ UNCHANGED <<mode, wsStatus, voiceState, listeners, ws, readyState,
                   timers, lastModeSwitch, handlers, wire, thrown,
                   unsubs, currentAudio, audio, bodyOnclick, isReacting,
                   reactTimer>>

\* the transport channel and the mode sync, with the overlay subscribed
Next ==
    \/ Load
    \/ Connect
    \/ \E v \in ViewNames : ShowView(v)
    \/ \E m \in Modes : SendMode(m)
    \/ \E a \in {"start", "stop"} : SendVoiceControl(a)
    \/ \E sock \in SocketIds : OnOpen(sock)
    \/ \E sock \in SocketIds : Closing(sock)
    \/ \E sock \in SocketIds : OnClose(sock)
    \/ \E sock \in SocketIds : OnError(sock)
    \/ \E sock \in SocketIds : ReconnectTimer(sock)
    \/ Tick

Spec == Init /\ [][Next]_vars

\* the channel driven by the repository's own callers of sendMode only
\* (showView and the open handler)
NextSync ==
    \/ Load
    \/ Connect
    \/ \E v \in ViewNames : ShowView(v)
    \/ \E sock \in SocketIds : OnOpen(sock)
    \/ \E sock \in SocketIds : Closing(sock)
    \/ \E sock \in SocketIds : OnClose(sock)
    \/ \E sock \in SocketIds : OnError(sock)
    \/ \E sock \in SocketIds : ReconnectTimer(sock)
    \/ Tick

SpecSync == Init /\ [][NextSync]_vars

\* the voice adapter on an open channel: inbound messages and the events
\* of the Audio elements it creates
NextVoice ==
    \/ Load
    \/ VoiceInit
    \/ \E v \in ViewNames : ShowView(v)
    \/ \E sock \in SocketIds : OnOpen(sock)
    \/ \E sock \in SocketIds, frame \in Frames : OnMessage(sock, frame)
    \/ \E a \in AudioIds : AudioPlay(a)
    \/ \E a \in AudioIds : PlayRejected(a)
    \/ BodyClick
    \/ \E a \in AudioIds : AudioEnded(a)
    \/ \E a \in AudioIds : AudioError(a)

SpecVoice == Init /\ [][NextVoice]_vars

\* both adapters on an open channel: inbound messages in every mode, and
\* the reaction timer of the vision adapter
NextAdapters ==
    \/ Load
    \/ VoiceInit
    \/ VisionInit
    \/ \E v \in ViewNames : ShowView(v)
    \/ \E sock \in SocketIds : OnOpen(sock)
    \/ \E sock \in SocketIds, frame \in Frames : OnMessage(sock, frame)
    \/ ReactionTimer
    \/ Idle

SpecAdapters == Init /\ [][NextAdapters]_vars

\* subscriptions coming and going while the store changes
NextSubs ==
    \/ Load
    \/ \E cb \in Subscribers : Subscribe(cb)
    \/ \E cb \in Subscribers : Unsubscribe(cb)
    \/ \E v \in ViewNames : ShowView(v)
    \/ \E sock \in SocketIds : OnOpen(sock)
    \/ \E sock \in SocketIds : OnClose(sock)

SpecSubs == Init /\ [][NextSubs]_vars

\* the store with its subscribers and every caller of its setters
NextStore ==
    \/ Load
    \/ \E cb \in Subscribers : Subscribe(cb)
    \/ VoiceInit
    \/ \E v \in ViewNames : ShowView(v)
    \/ \E sock \in SocketIds : OnOpen(sock)
    \/ \E sock \in SocketIds : OnClose(sock)
    \/ \E sock \in SocketIds : ReconnectTimer(sock)
    \/ \E sock \in SocketIds, f \in StoreFrames : OnMessage(sock, f)
    \/ Tick

SpecStore == Init /\ [][NextStore]_vars

\* the message router with the adapters' and other listeners
NextRouter ==
    \/ Load
    \/ VoiceInit
    \/ \E k \in ProbeKeys, p \in Probes : On(k, p)
    \/ \E v \in ViewNames : ShowView(v)
    \/ \E sock \in SocketIds : OnOpen(sock)
    \/ \E sock \in SocketIds : OnClose(sock)
    \/ \E sock \in SocketIds, f \in Frames : OnMessage(sock, f)

SpecRouter == Init /\ [][NextRouter]_vars

\* ------------------------------------------------------------ properties
Kind(tr, k) == SelectSeq(tr, LAMBDA e : e.ev = k)

Setters == {"setMode", "setWSStatus", "setVoiceState"}

SetterCalls(tr) == SelectSeq(tr, LAMBDA e : e.ev = "call" /\ e.id \in Setters)

Store == [mode |-> mode, wsStatus |-> wsStatus, voiceState |-> voiceState]

\* C1: a setter call whose argument differs from the field's current value
\* sets the field, leaves the other two fields alone and invokes every
\* subscription of _listeners exactly once, in order, with the new snapshot;
\* a call whose argument equals the current value invokes nobody and leaves
\* all three fields unchanged.
C1_NotifyOncePerChange ==
    [][LET calls == SetterCalls(trace') IN
       /\ Len(calls) <= 1
       /\ Len(calls) = 1 =>
            LET c   == calls[1]
                old == CASE c.id = "setMode" -> mode
                         [] c.id = "setWSStatus" -> wsStatus
                         [] OTHER -> voiceState
            IN  IF c.arg # old
                THEN /\ Kind(trace', "notify") =
                          [i \in 1..Len(listeners) |->
                              Ev("notify", listeners[i], Store')]
                     /\ Store' = CASE c.id = "setMode" -> [Store EXCEPT !.mode = c.arg]
                                   [] c.id = "setWSStatus" -> [Store EXCEPT !.wsStatus = c.arg]
                                   [] OTHER -> [Store EXCEPT !.voiceState = c.arg]
                ELSE /\ Kind(trace', "notify") = <<>>
                     /\ Store' = Store
      ]_vars

\* an equal-value setter call has just run with three subscriptions present
C1_Witness ==
    /\ op.fresh
    /\ Len(SetterCalls(trace)) = 1
    /\ Kind(trace, "notify") = <<>>
    /\ Len(listeners) = 3
    /\ mode = "VOICE"
    /\ op.name = "showView"

\* C2: subscribe(cb) invokes cb, and nobody else, exactly once inside the
\* call, with the snapshot of the store as it is at the call; the store is
\* not changed by it, and cb is appended to _listeners so that a later
\* change reaches it only in a later callback.
C2_SubscribeReplaysCurrent ==
    [][(op'.name = "subscribe" /\ op'.fresh) =>
         /\ Kind(trace', "notify") = <<Ev("notify", op'.arg, Store)>>
         /\ Store' = Store
         /\ listeners' = Append(listeners, op'.arg)
      ]_vars

\* a subscriber registered late, after the mode and the status have changed
C2_Witness ==
    /\ op.fresh
    /\ op.name = "subscribe"
    /\ mode = "VOICE"
    /\ wsStatus = "CONNECTED"
    /\ voiceState = "LISTENING"
    /\ Kind(trace, "notify") = <<Ev("notify", op.arg, Store)>>

ModeTx(tr) == SelectSeq(tr, LAMBDA e : e.ev = "tx" /\ e.arg.data.type = "mode")

SendModeCalls(tr) == SelectSeq(tr, LAMBDA e : e.ev = "call" /\ e.id = "sendMode")

SendCalls(tr) == SelectSeq(tr, LAMBDA e : e.ev = "call" /\ e.id = "send")

SendReturns(tr) == SelectSeq(tr, LAMBDA e : e.ev = "return" /\ e.id = "send")

\* C3: a callback transmits at most one mode message; a mode message sent
\* without the force flag is transmitted only if no mode message was
\* transmitted before or the last one was transmitted at least modeThrottle
\* ms earlier, so a non-forced sendMode made sooner transmits nothing; the
\* force flag is used by the open handler only.
C3_ModeSyncThrottled ==
    [][LET txs   == ModeTx(trace')
           calls == SendModeCalls(trace')
       IN  /\ Len(txs) <= 1
           /\ Len(calls) <= 1
           /\ Len(txs) = 1 => Len(calls) = 1
           /\ Len(calls) = 1 =>
                LET forced == calls[1].arg.force
                    recent == wire.value # Null /\ now - wire.t < modeThrottle
                IN  /\ forced => op'.name = "onopen"
                    /\ (~forced /\ recent) => txs = <<>>
                    /\ txs # <<>> =>
                         \/ forced
                         \/ wire.value = Null
                         \/ now - wire.t >= modeThrottle
      ]_vars

\* showView on an open channel, less than modeThrottle ms after another mode
\* was transmitted: the sync is dropped
C3_Witness ==
    /\ op.fresh
    /\ op.name = "showView"
    /\ readyState[ws] = "OPEN"
    /\ Len(SendModeCalls(trace)) = 1
    /\ ~SendModeCalls(trace)[1].arg.force
    /\ SendModeCalls(trace)[1].arg.elapsed < modeThrottle
    /\ ModeTx(trace) = <<>>
    /\ now - wire.t < modeThrottle
    /\ wire.value # mode

\* C4: the open handler sets the status to CONNECTED and, when the mode is
\* set, transmits exactly one mode message carrying it on the socket that
\* opened, whatever the time since the last mode message; with no mode set it
\* transmits none.
C4_OpenForcesModeSync ==
    [][(op'.name = "onopen" /\ op'.fresh) =>
         /\ wsStatus' = "CONNECTED"
         /\ mode' = mode
         /\ ModeTx(trace') =
              IF mode # Null
              THEN <<Ev("tx", op'.sock, JSONstringify(Msg("mode", Undefined, mode)))>>
              ELSE <<>>
      ]_vars

\* a socket opens less than modeThrottle ms after the last mode message and
\* the mode is sent again
C4_Witness ==
    /\ op.fresh
    /\ op.name = "onopen"
    /\ Len(ModeTx(trace)) = 1
    /\ SendModeCalls(trace)[1].arg.elapsed < modeThrottle
    /\ wsStatus = "CONNECTED"

\* C5: the close handler sets the status to DISCONNECTED and arms a timer of
\* reconnectInterval ms; while nothing but time passes the status stays
\* DISCONNECTED; the timer callback, running no earlier than the delay, sets
\* RECONNECTING and creates a new socket.
C5_CloseThenReconnect ==
    [][/\ (op'.name = "onclose" /\ op'.fresh) =>
            /\ wsStatus' = "DISCONNECTED"
            /\ timers'[op'.sock] = now + reconnectInterval
       /\ (op.name = "onclose" /\ op'.name = "onclose" /\ ~op'.fresh) =>
            wsStatus' = "DISCONNECTED"
       /\ (op.name = "onclose" /\ op'.name = "reconnectTimer" /\ op'.fresh
             /\ op'.sock = op.sock) =>
            /\ wsStatus = "DISCONNECTED"
            /\ now >= timers[op.sock]
            /\ wsStatus' = "RECONNECTING"
            /\ Kind(trace', "socket") # <<>>
            /\ readyState'[ws'] = "CONNECTING"
      ]_vars

\* C6: connect() with the current socket open or connecting changes nothing;
\* any callback creates a socket only when there is no current socket or the
\* current one is neither open nor connecting, and a callback that creates
\* none keeps the current socket.
C6_ConnectGuard ==
    [][/\ (op'.name = "connect" /\ op'.fresh /\ ws # 0
             /\ readyState[ws] \in {"OPEN", "CONNECTING"}) =>
            /\ trace' = <<>>
            /\ UNCHANGED <<mode, wsStatus, voiceState, listeners, ws,
                           readyState, timers, lastModeSwitch, handlers, wire>>
       /\ Kind(trace', "socket") # <<>> =>
            /\ ws = 0 \/ readyState[ws] \notin {"OPEN", "CONNECTING"}
            /\ Len(Kind(trace', "socket")) = 1
            /\ ws' # ws
            /\ readyState[ws'] = "NONE"
            /\ readyState'[ws'] = "CONNECTING"
       /\ (Kind(trace', "socket") = <<>> /\ op'.fresh) => ws' = ws
      ]_vars

\* connect() called while the current socket is still connecting
C6_Witness ==
    /\ op.fresh
    /\ op.name = "connect"
    /\ readyState[ws] = "CONNECTING"
    /\ trace = <<>>

\* C7: at most one socket is open or connecting, and a socket is created
\* only when every socket created before it has had its close callback.
C7_SerializedSockets ==
    [][/\ Cardinality({s \in SocketIds :
                         readyState'[s] \in {"OPEN", "CONNECTING"}}) <= 1
       /\ Kind(trace', "socket") # <<>> =>
            \A s \in SocketIds : readyState[s] \in {"NONE", "CLOSED"}
      ]_vars

\* C8: send(data) hands the frame of data to the socket and returns true
\* exactly when the current socket is open; otherwise it hands over nothing,
\* returns false and changes neither the channel nor the store; it never
\* throws.
C8_SendOnlyWhenOpen ==
    [][LET calls == SendCalls(trace')
           rets  == SendReturns(trace')
           open  == ws' # 0 /\ readyState'[ws'] = "OPEN"
       IN  /\ Len(calls) <= 1
           /\ Len(calls) = 1 =>
                /\ ~thrown'
                /\ Len(rets) = 1
                /\ rets[1].arg = open
                /\ Kind(trace', "tx") =
                     IF open
                     THEN <<Ev("tx", ws', JSONstringify(calls[1].arg))>>
                     ELSE <<>>
                /\ ~open =>
                     /\ UNCHANGED <<wsStatus, voiceState, listeners, ws,
                                    readyState, timers, lastModeSwitch,
                                    handlers, wire>>
                     /\ op'.name # "showView" => mode' = mode
      ]_vars

\* a voice_control message sent while the socket is still connecting
C8_Witness ==
    /\ op.fresh
    /\ op.name = "sendVoiceControl"
    /\ readyState[ws] = "CONNECTING"
    /\ Len(SendReturns(trace)) = 1
    /\ SendReturns(trace)[1].arg = FALSE
    /\ Kind(trace, "tx") = <<>>

ActionKeys == {"action:speak", "action:wave", "action:motion_detected"}

UnderActionKey(h, id) ==
    \E k \in ActionKeys \cap DOMAIN h : \E i \in 1..Len(h[k]) : h[k][i] = id

\* C9: routing a message of type "action" with action A invokes the
\* listeners under "action" and then those under "action:A", in registration
\* order, once each with the message; routing a message of any other type
\* invokes no listener registered under an "action:*" key.
C9_TwoTierDispatch ==
    [][(op'.name = "onmessage" /\ op'.fresh /\ op'.arg.text = "object") =>
         LET m   == op'.arg.data
             ran == Kind(trace', "listener")
         IN  IF m.type = "action"
             THEN LET cbs == Get(handlers, "action")
                               \o Get(handlers, ActionKey(m.action))
                  IN  ran = [i \in 1..Len(cbs) |-> Ev("listener", cbs[i], m)]
             ELSE \A i \in 1..Len(ran) : ~UnderActionKey(handlers, ran[i].id)
      ]_vars

\* C10: a frame that is not JSON invokes no listener, has no effect at all,
\* throws nothing out of the handler and leaves the socket open; the next
\* frame, if well formed, is routed to the listeners of its type.
C10_MalformedFrameInert ==
    [][/\ (op'.name = "onmessage" /\ op'.fresh /\ op'.arg.text = "garbage") =>
            /\ trace' = <<>>
            /\ ~thrown'
            /\ Store' = Store
            /\ UNCHANGED <<listeners, ws, readyState, timers, lastModeSwitch,
                           handlers, wire>>
            /\ readyState'[op'.sock] = "OPEN"
       /\ (op.name = "onmessage" /\ op.arg.text = "garbage"
             /\ op'.name = "onmessage" /\ op'.fresh
             /\ op'.arg.text = "object" /\ op'.arg.data.type # "action") =>
            LET m   == op'.arg.data
                cbs == Get(handlers, m.type)
            IN  Kind(trace', "listener") =
                  [i \in 1..Len(cbs) |-> Ev("listener", cbs[i], m)]
      ]_vars

\* a frame that is not JSON arrives while the voice adapter listens in
\* VOICE mode
C10_Witness ==
    /\ op.fresh
    /\ op.name = "onmessage"
    /\ op.arg.text = "garbage"
    /\ readyState[op.sock] = "OPEN"
    /\ mode = "VOICE"
    /\ Registered(handlers, "voice.state")
    /\ trace = <<>>

\* C11: sendMode moves lastModeSwitch to the current time exactly when its
\* mode message was transmitted and leaves it alone otherwise, so the
\* timestamp is always the time of the last mode message transmitted.
C11_StampOnlyOnSuccess ==
    [][/\ Len(SendModeCalls(trace')) = 1 =>
            lastModeSwitch' = IF ModeTx(trace') # <<>> THEN now
                              ELSE lastModeSwitch
       /\ lastModeSwitch' = wire'.t
      ]_vars

\* a mode sync that passed the throttle but found the channel not open,
\* after an earlier mode message had been transmitted
C11_Witness ==
    /\ op.fresh
    /\ op.name = "showView"
    /\ readyState[ws] # "OPEN"
    /\ Len(SendModeCalls(trace)) = 1
    /\ SendModeCalls(trace)[1].arg.elapsed >= modeThrottle
    /\ SendReturns(trace) = <<Ev("return", "send", FALSE)>>
    /\ wire.value # Null
    /\ lastModeSwitch = wire.t
    /\ lastModeSwitch < now

\* C12: showView(name) leaves wsStatus and voiceState unchanged, sets the
\* mode to VISION, VOICE or null for vision, voice and portal and keeps it
\* for any other name, and then calls sendMode once, not forced, with the
\* store's mode if that mode is not null and not at all if it is null.
C12_ShowViewFrame ==
    [][(op'.name = "showView" /\ op'.fresh) =>
         LET calls == SendModeCalls(trace') IN
         /\ wsStatus' = wsStatus
         /\ voiceState' = voiceState
         /\ mode' = CASE op'.arg = "vision" -> "VISION"
                      [] op'.arg = "voice" -> "VOICE"
                      [] op'.arg = "portal" -> Null
                      [] OTHER -> mode
         /\ IF mode' # Null
            THEN /\ Len(calls) = 1
                 /\ calls[1].arg.mode = mode'
                 /\ calls[1].arg.force = FALSE
            ELSE calls = <<>>
      ]_vars

\* a view without a mode of its own is shown in VOICE mode while the
\* backend reports LISTENING: the mode is synced again, nothing else moves
C12_Witness ==
    /\ op.fresh
    /\ op.name = "showView"
    /\ op.arg = "settings"
    /\ mode = "VOICE"
    /\ voiceState = "LISTENING"
    /\ wsStatus = "CONNECTED"
    /\ Len(SendModeCalls(trace)) = 1

CurrentLive == ws # 0 /\ readyState[ws] \in {"OPEN", "CONNECTING"}

\* C14: every close handler, whatever the socket's state was and however
\* many sockets have failed before, arms a timer of exactly
\* reconnectInterval ms; the timer callback leaves the channel with a socket
\* that is connecting or open; and the channel never gives up: at any time
\* its socket is connecting, open or closing, or a reconnect timer is armed.
C14_UnboundedReconnect ==
    [][/\ (op'.name = "onclose" /\ op'.fresh) =>
            timers'[op'.sock] = now + reconnectInterval
       /\ (op'.name = "reconnectTimer" /\ op'.fresh) =>
            /\ readyState'[ws'] \in {"OPEN", "CONNECTING"}
            /\ ~CurrentLive => Kind(trace', "socket") # <<>>
       /\ ws' # 0 =>
            \/ readyState'[ws'] \in {"OPEN", "CONNECTING", "CLOSING"}
            \/ \E s \in SocketIds : timers'[s] # 0
      ]_vars

\* the second socket in a row fails before it ever opened, and the retry is
\* armed with the same delay
C14_Witness ==
    /\ op.fresh
    /\ op.name = "onclose"
    /\ op.arg = "CONNECTING"
    /\ op.sock = 2
    /\ readyState[1] = "CLOSED"
    /\ wire.value = Null
    /\ timers[2] = now + reconnectInterval

\* C15: the error handler changes nothing and arms no timer; a timer is
\* armed, and the status set to DISCONNECTED, by the close handler only.
C15_ErrorIsInert ==
    [][/\ (op'.name = "onerror" /\ op'.fresh) =>
            /\ trace' = <<>>
            /\ UNCHANGED <<mode, wsStatus, voiceState, listeners, ws,
                           readyState, timers, lastModeSwitch, handlers, wire>>
       /\ (\E s \in SocketIds : timers'[s] # 0 /\ timers'[s] # timers[s]) =>
            op'.name = "onclose"
       /\ (wsStatus' = "DISCONNECTED" /\ wsStatus # "DISCONNECTED") =>
            op'.name = "onclose"
      ]_vars

\* an error event on the open socket: the status is still CONNECTED
C15_Witness ==
    /\ op.fresh
    /\ op.name = "onerror"
    /\ readyState[op.sock] = "OPEN"
    /\ wsStatus = "CONNECTED"
    /\ \A s \in SocketIds : timers[s] = 0
    /\ trace = <<>>

\* C13: voiceState changes only while an inbound message is being routed:
\* no client-local event (the play, ended and error callbacks of an Audio
\* element, a view switch, a connection event) changes it.  (The claim's
\* narrower wording, `state` messages only, moreover excludes the `error`
\* message of C17.)
C13_VoiceStateFromBackendOnly ==
    [][voiceState' # voiceState => op'.name = "onmessage"]_vars

VoiceListeners == {"voice.speak", "voice.transcribe", "voice.state", "voice.error"}

Reactions(tr, ids) == SelectSeq(tr, LAMBDA e : e.ev = "react" /\ e.id \in ids)

\* C16: an inbound message routed while the mode is not VOICE changes no
\* field of the store, notifies no subscriber and causes no reaction of the
\* voice adapter (no text, no Audio element created, interrupted or
\* started); routed while the mode is not VISION it starts no reaction of
\* the vision adapter.
C16_ModeScopedActivation ==
    [][(op'.name = "onmessage" /\ op'.fresh) =>
         /\ mode' = mode
         /\ mode # "VOICE" =>
              /\ Store' = Store
              /\ Kind(trace', "notify") = <<>>
              /\ Reactions(trace', VoiceListeners) = <<>>
              /\ UNCHANGED <<currentAudio, audio, bodyOnclick>>
         /\ mode # "VISION" =>
              /\ Reactions(trace', {"vision.motion"}) = <<>>
              /\ UNCHANGED <<isReacting, reactTimer>>
      ]_vars

\* a `state` message reaches the voice adapter's listener in VISION mode
\* and the sub-state reported earlier stays
C16_Witness ==
    /\ op.fresh
    /\ op.name = "onmessage"
    /\ op.arg.data.type = "state"
    /\ op.arg.data.value = "PLAYING"
    /\ mode = "VISION"
    /\ voiceState = "LISTENING"
    /\ Registered(handlers, "vision.motion")
    /\ \E i \in 1..Len(trace) :
          trace[i].ev = "listener" /\ trace[i].id = "voice.state"

\* C17 as stated: once the voice adapter listens, routing an `error`
\* message leaves voiceState IDLE whatever it was, and the status, the
\* socket and the timers as they were.
C17_ErrorForcesIdle ==
    [][(op'.name = "onmessage" /\ op'.fresh /\ op'.arg.data.type = "error"
          /\ Registered(handlers, "voice.error")) =>
         /\ voiceState' = "IDLE"
         /\ UNCHANGED <<wsStatus, ws, readyState, timers>>
      ]_vars

\* C17 amended: routing an `error` message while the mode is VOICE leaves
\* voiceState IDLE whatever it was; while the mode is not VOICE it leaves
\* voiceState as it was; in both cases the status, the socket and the timers
\* are unchanged.
C17_ErrorForcesIdleInVoice ==
    [][(op'.name = "onmessage" /\ op'.fresh /\ op'.arg.data.type = "error"
          /\ Registered(handlers, "voice.error")) =>
         /\ voiceState' = IF mode = "VOICE" THEN "IDLE" ELSE voiceState
         /\ UNCHANGED <<wsStatus, ws, readyState, timers>>
      ]_vars

\* an `error` message in VOICE mode has just moved the sub-state to IDLE
C17_Witness ==
    /\ op.fresh
    /\ op.name = "onmessage"
    /\ op.arg.data.type = "error"
    /\ mode = "VOICE"
    /\ voiceState = "IDLE"
    /\ wsStatus = "CONNECTED"
    /\ Len(Kind(trace, "notify")) = Len(listeners)
    /\ Len(listeners) = 2

Entries(seq) == {seq[i] : i \in 1..Len(seq)}

C19_StatusMirrorsSocket ==
    (ws # 0 /\ readyState[ws] = "OPEN") => wsStatus = "CONNECTED"

\* C20 as stated: when showView changes the mode to a non-null value less
\* than modeThrottle ms after the last mode message, nothing is transmitted
\* and the store's mode differs from the last mode value transmitted.
C20_DroppedSyncDiffers ==
    [][(op'.name = "showView" /\ op'.fresh /\ mode' # mode /\ mode' # Null
          /\ wire.value # Null /\ now - wire.t < modeThrottle) =>
         /\ ModeTx(trace') = <<>>
         /\ mode' # wire'.value
      ]_vars

\* C20 amended: such a showView transmits nothing and leaves the record of
\* the last mode message as it was; and no callback other than showView and
\* the open handler changes the store's mode or transmits a mode message, so
\* whatever difference the drop left stays until one of those two.
C20_DroppedSyncNotRetried ==
    [][/\ (op'.name = "showView" /\ op'.fresh /\ mode' # mode /\ mode' # Null
             /\ wire.value # Null /\ now - wire.t < modeThrottle) =>
            /\ ModeTx(trace') = <<>>
            /\ wire' = wire
       /\ op'.name \notin {"showView", "onopen"} =>
            /\ ModeTx(trace') = <<>>
            /\ wire' = wire
            /\ mode' = mode
       /\ (op'.name = "showView" /\ op'.fresh /\ mode' # Null
             /\ readyState[ws] # "OPEN") =>
            /\ ModeTx(trace') = <<>>
            /\ wire' = wire
      ]_vars

\* the reconnect timer has just run while the store's mode, dropped by the
\* throttle earlier, still differs from the last mode transmitted
C20_Witness ==
    /\ op.fresh
    /\ op.name = "reconnectTimer"
    /\ mode = "VISION"
    /\ wire.value = "VOICE"
    /\ wire.t = StartTime
====
